---- MODULE Spec2Model ----
(***************************************************************************)
(* Model of the StrNum derive macro (src/src/lib.rs).                      *)
(*                                                                         *)
(* One behaviour is one macro expansion followed by uses of the code it    *)
(* emitted: `Derive` is derive() applied to a parsed declaration, the      *)
(* other actions are calls of the generated From / TryFrom / Display /     *)
(* From<Enum> for String implementations.                                  *)
(*                                                                         *)
(* Strings are sequences of one-character strings, so that matching is     *)
(* character-exact and the format-string reading of a label by write! is   *)
(* something the model computes.                                           *)
(***************************************************************************)
EXTENDS Naturals, Sequences, FiniteSets

VARIABLES
    pc,         \* "start", "expanded" (derive returned), "aborted" (derive panicked)
    decl,       \* the DeriveInput handed to derive: kind and variants
    options,    \* Vec<StringOption> built by derive
    emitted,    \* the TokenStream derive returned: impls and their match arms
    message,    \* the panic message, "" when there was none
    last,       \* the generated function called last
    input,      \* the string passed to from / try_from
    rOwned,     \* result of the String entry point
    rBorrowed,  \* result of the &str entry point
    self,       \* the enum value rendered last
    shown,      \* Display output for self
    consumed    \* String::from(self)

vars == <<pc, decl, options, emitted, message, last, input, rOwned, rBorrowed,
          self, shown, consumed>>

(***************************************************************************)
(* Bounds of the explored inputs.                                          *)
(***************************************************************************)
MaxVariants == 3
MaxFields == 2
MaxLen == 2

(***************************************************************************)
(* Input domains.                                                          *)
(***************************************************************************)
\* identifiers of the generated declarations, by declaration position
IdentPool == <<"A", "B", "C", "D", "E">>

\* characters of the strings passed to the conversions
Chars == {"a", "A", " "}

\* string literals carried by annotations: empty, plain, an escaped brace
\* pair, a lone brace
Literals == { <<>>, <<"a">>, <<"{", "{">>, <<"{">> }

StringsUpTo(n) == UNION { [1..k -> Chars] : k \in 0..n }

One == <<"O", "n", "e">>
Two == <<"T", "w", "o">>
Three == <<"T", "h", "r", "e", "e">>
Other == <<"O", "t", "h", "e", "r">>
one == <<"o", "n", "e">>
two == <<"t", "w", "o">>
three == <<"t", "h", "r", "e", "e">>
four == <<"f", "o", "u", "r">>
Four == <<"F", "o", "u", "r">>

Unit == [kind |-> "Unit", len |-> 0]
Named == [kind |-> "Named", len |-> 1]
Unnamed(n) == [kind |-> "Unnamed", len |-> n]

NoAttrs == <<>>
Attr(k, l) == << [key |-> k, lit |-> l] >>

Variant(id, as, fs) == [ident |-> id, attrs |-> as, fields |-> fs]

\* enum Values of the tests
Values ==
    [kind |-> "Enum",
     variants |-> << Variant(One, NoAttrs, Unit), Variant(Two, NoAttrs, Unit),
                     Variant(Three, NoAttrs, Unit), Variant(Other, NoAttrs, Unnamed(1)) >>]

\* enum RenamedValues of the tests
RenamedValues ==
    [kind |-> "Enum",
     variants |-> << Variant(One, Attr("name", one), Unit),
                     Variant(Two, Attr("name", two), Unit),
                     Variant(Three, Attr("name", three), Unit),
                     Variant(Other, NoAttrs, Unnamed(1)) >>]

\* enum LimitedValues of the tests
LimitedValues ==
    [kind |-> "Enum",
     variants |-> << Variant(One, NoAttrs, Unit), Variant(Two, NoAttrs, Unit),
                     Variant(Three, NoAttrs, Unit) >>]

TestDecls == {Values, RenamedValues, LimitedValues}

\* what one variant of an enumerated declaration looks like; a variant the
\* classifier rejects for its fields is drawn without annotations
VariantShapes ==
    { [attrs |-> as, fields |-> fs] :
        as \in {NoAttrs} \cup { Attr("value", l) : l \in Literals } \cup {Attr("name", <<"a">>)},
        fs \in {Unit, Unnamed(0), Unnamed(1)} }
    \cup { [attrs |-> NoAttrs, fields |-> fs] :
             fs \in {Named} \cup { Unnamed(n) : n \in 2..MaxFields } }

\* the enum declaration of n >= 1 variants with the shapes f[1], ..., f[n]
EnumDecl(n, f) ==
    [kind |-> "Enum",
     variants |-> [i \in 1..n |-> Variant(<<IdentPool[i]>>, f[i].attrs, f[i].fields)]]

\* a declaration that is no enum
OtherDecl(k) == [kind |-> k, variants |-> <<>>]

Inputs ==
    StringsUpTo(MaxLen) \cup Literals
    \cup { <<IdentPool[i]>> : i \in 1..Len(IdentPool) }
    \cup {One, Two, Three, Other, one, two, three, four, Four}


(***************************************************************************)
(* The macro: StringOption::from and derive.                               *)
(***************************************************************************)
\* #[proc_macro_derive(StrNum, attributes(value))]: the helper attributes the
\* host compiler accepts on a variant of the deriving enum
HelperAttributes == {"value"}

None == [some |-> FALSE, lit |-> <<>>]
Some(l) == [some |-> TRUE, lit |-> l]

\* get_attribute_value(&variant.attrs, &["value"]): the literal of the first
\* annotation with that key, if any
GetAttributeValue(attrs, key) ==
    IF \E i \in 1..Len(attrs) : attrs[i].key = key
    THEN Some(attrs[CHOOSE i \in 1..Len(attrs) :
                      /\ attrs[i].key = key
                      /\ \A j \in 1..(i - 1) : attrs[j].key # key].lit)
    ELSE None

\* the name of a StringOption: the annotation's literal, else the identifier
OptionName(variant) ==
    LET v == GetAttributeValue(variant.attrs, "value")
    IN  IF v.some THEN v.lit ELSE variant.ident

\* the match on variant.fields: the panic message, "" when it does not panic
FieldsPanic(fields) ==
    IF fields.kind = "Named" THEN "Only single unnamed enum field is supported"
    ELSE IF fields.kind = "Unnamed" /\ fields.len > 1
         THEN "Only a single unnamed enum field is supported"
    ELSE ""

\* the match on variant.fields: the value of catch_all when it does not panic
CatchAll(fields) ==
    IF fields.kind = "Unit" THEN FALSE ELSE TRUE

\* impl From<Variant> for StringOption; span is the variant's position
StringOptionFrom(variant, position) ==
    [ident |-> variant.ident,
     name |-> OptionName(variant),
     catch_all |-> CatchAll(variant.fields),
     span |-> position]

CatchAllCount(opts) == Cardinality({ i \in 1..Len(opts) : opts[i].catch_all })

\* a plausible slip: every count other than 0 taken as "has a fallback"
HasFallbackLenient(opts) ==
    [panic |-> FALSE, value |-> CatchAllCount(opts) # 0]

\* let has_fallback = match ...count() { 0 => false, 1 => true, _ => panic!(..) }
HasFallback(opts) ==
    [panic |-> CatchAllCount(opts) > 1, value |-> CatchAllCount(opts) = 1]

\* match_arms: one arm per option, in declaration order
MatchArms(opts) ==
    [i \in 1..Len(opts) |->
        IF opts[i].catch_all
        THEN [wild |-> TRUE, lit |-> <<>>, ident |-> opts[i].ident, span |-> opts[i].span]
        ELSE [wild |-> FALSE, lit |-> opts[i].name, ident |-> opts[i].ident,
              span |-> opts[i].span]]

\* display_arms: the pattern of each arm and what it writes
DisplayArms(opts) ==
    [i \in 1..Len(opts) |->
        [ident |-> opts[i].ident, binds |-> opts[i].catch_all,
         fmt |-> IF opts[i].catch_all THEN <<"{", "}">> ELSE opts[i].name,
         span |-> opts[i].span]]

\* to_string_arms: the pattern of each arm and what it evaluates to
ToStringArms(opts) ==
    [i \in 1..Len(opts) |->
        [ident |-> opts[i].ident, binds |-> opts[i].catch_all,
         text |-> opts[i].name, span |-> opts[i].span]]

\* the impls of `from`, in the order they are quoted
FromImpls(has_fallback) ==
    IF has_fallback THEN <<"From<String>", "From<&str>">>
    ELSE <<"TryFrom<String>", "TryFrom<&str>">>

\* the impls of `display`, in the order they are quoted
DisplayImpls == <<"Display", "From<Enum> for String">>

Nothing ==
    [impls |-> <<>>, match_arms |-> <<>>, display_arms |-> <<>>, to_string_arms |-> <<>>]

\* data.variants.into_iter().map(StringOption::from).collect(), when no
\* variant panics
Options(d) ==
    [i \in 1..Len(d.variants) |-> StringOptionFrom(d.variants[i], i)]

\* the panic derive ends in, "" when it returns
PanicMessage(d) ==
    IF d.kind # "Enum" THEN "Can only derive StrNum for enums"
    ELSE IF \E i \in 1..Len(d.variants) : FieldsPanic(d.variants[i].fields) # ""
         THEN FieldsPanic(d.variants[CHOOSE i \in 1..Len(d.variants) :
                 /\ FieldsPanic(d.variants[i].fields) # ""
                 /\ \A j \in 1..(i - 1) : FieldsPanic(d.variants[j].fields) = ""].fields)
    ELSE IF HasFallback(Options(d)).panic
         THEN "Only a single catch-all variant is supported"
    ELSE ""

\* the TokenStream derive returns
Expanded(opts) ==
    [impls |-> FromImpls(HasFallback(opts).value) \o DisplayImpls,
     match_arms |-> MatchArms(opts),
     display_arms |-> DisplayArms(opts),
     to_string_arms |-> ToStringArms(opts)]


(***************************************************************************)
(* The generated code.                                                     *)
(***************************************************************************)
\* a value of the enum: a unit variant, or the tuple variant with its String
UnitValue(ident) == [ident |-> ident, has |-> FALSE, payload |-> <<>>]
TupleValue(ident, s) == [ident |-> ident, has |-> TRUE, payload |-> s]

NoValue == [ident |-> <<>>, has |-> FALSE, payload |-> <<>>]
Ok(v) == [set |-> TRUE, ok |-> TRUE, val |-> v, err |-> <<>>]
Err(s) == [set |-> TRUE, ok |-> FALSE, val |-> NoValue, err |-> s]
NoResult == [set |-> FALSE, ok |-> FALSE, val |-> NoValue, err |-> <<>>]

RECURSIVE TrimStart(_)
TrimStart(s) ==
    IF s # <<>> /\ Head(s) = " " THEN TrimStart(Tail(s)) ELSE s

RECURSIVE TrimEnd(_)
TrimEnd(s) ==
    IF s # <<>> /\ s[Len(s)] = " " THEN TrimEnd(SubSeq(s, 1, Len(s) - 1)) ELSE s

Trim(s) == TrimEnd(TrimStart(s))

\* a plausible slip: the scrutinee trimmed before it is compared
FirstMatchTrimmed(arms, s) ==
    IF \E i \in 1..Len(arms) : arms[i].wild \/ arms[i].lit = Trim(s)
    THEN CHOOSE i \in 1..Len(arms) :
            /\ arms[i].wild \/ arms[i].lit = Trim(s)
            /\ \A j \in 1..(i - 1) : ~(arms[j].wild \/ arms[j].lit = Trim(s))
    ELSE 0

\* match value { arms }: the first arm, in the order written, whose pattern
\* matches: a string literal matches the equal string, `_` matches every
\* string; 0 when no arm matches
FirstMatch(arms, s) ==
    IF \E i \in 1..Len(arms) : arms[i].wild \/ arms[i].lit = s
    THEN CHOOSE i \in 1..Len(arms) :
            /\ arms[i].wild \/ arms[i].lit = s
            /\ \A j \in 1..(i - 1) : ~(arms[j].wild \/ arms[j].lit = s)
    ELSE 0

\* the right-hand side of a match arm: #enum_name::#ident(value.into()) for
\* the catch-all, #enum_name::#ident otherwise
ArmValue(arm, value) ==
    IF arm.wild THEN TupleValue(arm.ident, value) ELSE UnitValue(arm.ident)

\* impl From<String>: match value.as_str() { arms }
FromString(arms, value) == ArmValue(arms[FirstMatch(arms, value)], value)

\* impl From<&str>: match value { arms }
FromStr(arms, value) == ArmValue(arms[FirstMatch(arms, value)], value)

\* impl TryFrom<String>: the arms, then _ => return Err(value)
TryFromString(arms, value) ==
    IF FirstMatch(arms, value) = 0 THEN Err(value)
    ELSE Ok(ArmValue(arms[FirstMatch(arms, value)], value))

\* a plausible slip: the error built from a normalised copy of the input
TryFromStrTrimmed(arms, value) ==
    IF FirstMatch(arms, value) = 0 THEN Err(Trim(value))
    ELSE Ok(ArmValue(arms[FirstMatch(arms, value)], value))

\* impl TryFrom<&str>: the arms, then _ => return Err(value.to_string())
TryFromStr(arms, value) ==
    IF FirstMatch(arms, value) = 0 THEN Err(value)
    ELSE Ok(ArmValue(arms[FirstMatch(arms, value)], value))

\* a format string with no arguments, as write! reads it: "{{" and "}}" are
\* the characters "{" and "}", every other brace opens or closes an argument
\* and, with no argument passed and no such name in scope, is rejected when
\* the generated code is compiled
RECURSIVE FormatLiteral(_)
FormatLiteral(s) ==
    IF s = <<>> THEN [ok |-> TRUE, text |-> <<>>]
    ELSE IF Head(s) \in {"{", "}"}
         THEN IF Len(s) >= 2 /\ s[2] = s[1]
              THEN LET r == FormatLiteral(SubSeq(s, 3, Len(s)))
                   IN  [ok |-> r.ok, text |-> <<s[1]>> \o r.text]
              ELSE [ok |-> FALSE, text |-> <<>>]
    ELSE LET r == FormatLiteral(Tail(s))
         IN  [ok |-> r.ok, text |-> <<Head(s)>> \o r.text]

\* match self { arms }: the arm whose pattern is the value's variant
ArmOf(arms, v) == CHOOSE i \in 1..Len(arms) : arms[i].ident = v.ident

\* impl Display: write!(f, "{}", value) for the catch-all, write!(f, #string)
\* otherwise
Fmt(arms, v) ==
    LET arm == arms[ArmOf(arms, v)]
    IN  IF arm.binds THEN v.payload ELSE FormatLiteral(arm.fmt).text

\* impl From<Enum> for String: value for the catch-all, #string.to_string()
\* otherwise
IntoString(arms, v) ==
    LET arm == arms[ArmOf(arms, v)]
    IN  IF arm.binds THEN v.payload ELSE arm.text

\* whether the host compiler accepts the deriving enum with the emitted impls:
\* every annotation is a helper attribute of the derive, the tuple pattern
\* and constructor of the catch-all have the arity of its variant, and every
\* label is a format string that takes no arguments (the one field of a
\* catch-all is taken to be a String, as in the crate's documentation)
Compiles(d, opts) ==
    /\ \A i \in 1..Len(d.variants) :
          \A k \in 1..Len(d.variants[i].attrs) :
             d.variants[i].attrs[k].key \in HelperAttributes
    /\ \A i \in 1..Len(opts) :
          IF opts[i].catch_all
          THEN d.variants[i].fields.kind = "Unnamed" /\ d.variants[i].fields.len = 1
          ELSE FormatLiteral(opts[i].name).ok

\* the values of the enum
EnumValues(opts) ==
    { UnitValue(opts[i].ident) : i \in { j \in 1..Len(opts) : ~opts[j].catch_all } }
    \cup { TupleValue(opts[i].ident, s) :
             i \in { j \in 1..Len(opts) : opts[j].catch_all }, s \in Inputs }

Has(impl) == \E k \in 1..Len(emitted.impls) : emitted.impls[k] = impl

(***************************************************************************)
(* The state machine.                                                      *)
(***************************************************************************)
Init ==
    /\ pc = "start"
    /\ \/ \E n \in 1..MaxVariants : \E f \in [1..n -> VariantShapes] : decl = EnumDecl(n, f)
       \/ \E k \in {"Struct", "Union"} : decl = OtherDecl(k)
       \/ decl \in TestDecls
    /\ options = <<>>
    /\ emitted = Nothing
    /\ message = ""
    /\ last = "none"
    /\ input = <<>>
    /\ rOwned = NoResult
    /\ rBorrowed = NoResult
    /\ self = NoValue
    /\ shown = <<>>
    /\ consumed = <<>>

\* derive(input.data, &input.ident, &input.attrs)
Derive ==
    /\ pc = "start"
    /\ message' = PanicMessage(decl)
    /\ IF PanicMessage(decl) # ""
       THEN /\ pc' = "aborted"
            /\ options' = <<>>
            /\ emitted' = Nothing
       ELSE /\ pc' = "expanded"
            /\ options' = Options(decl)
            /\ emitted' = Expanded(Options(decl))
    /\ UNCHANGED <<decl, last, input, rOwned, rBorrowed, self, shown, consumed>>

\* the deriving crate was built: derive returned and its output compiled
Runs == pc = "expanded" /\ Compiles(decl, options)

\* The generated functions are pure and keep no state, so one call (and the
\* rendering of what it returned) per behaviour covers every sequence of calls.

\* Enum::from(value), through both entry points
From ==
    /\ Runs
    /\ last = "none"
    /\ Has("From<String>") /\ Has("From<&str>")
    /\ \E value \in Inputs :
          /\ input' = value
          /\ rOwned' = Ok(FromString(emitted.match_arms, value))
          /\ rBorrowed' = Ok(FromStr(emitted.match_arms, value))
    /\ last' = "from"
    /\ self' = NoValue
    /\ shown' = <<>>
    /\ consumed' = <<>>
    /\ UNCHANGED <<pc, decl, options, emitted, message>>

\* Enum::try_from(value), through both entry points
TryFrom ==
    /\ Runs
    /\ last = "none"
    /\ Has("TryFrom<String>") /\ Has("TryFrom<&str>")
    /\ \E value \in Inputs :
          /\ input' = value
          /\ rOwned' = TryFromString(emitted.match_arms, value)
          /\ rBorrowed' = TryFromStr(emitted.match_arms, value)
    /\ last' = "try_from"
    /\ self' = NoValue
    /\ shown' = <<>>
    /\ consumed' = <<>>
    /\ UNCHANGED <<pc, decl, options, emitted, message>>

\* v.to_string() and String::from(v) of a value v
Render ==
    /\ Runs
    /\ last = "none"
    /\ Has("Display") /\ Has("From<Enum> for String")
    /\ \E v \in EnumValues(options) :
          /\ self' = v
          /\ shown' = Fmt(emitted.display_arms, v)
          /\ consumed' = IntoString(emitted.to_string_arms, v)
    /\ last' = "render"
    /\ input' = <<>>
    /\ rOwned' = NoResult
    /\ rBorrowed' = NoResult
    /\ UNCHANGED <<pc, decl, options, emitted, message>>

\* the same of the value the last conversion returned
RenderResult ==
    /\ Runs
    /\ Has("Display") /\ Has("From<Enum> for String")
    /\ last \in {"from", "try_from"}
    /\ rOwned.ok
    /\ last' = "roundtrip"
    /\ self' = rOwned.val
    /\ shown' = Fmt(emitted.display_arms, rOwned.val)
    /\ consumed' = IntoString(emitted.to_string_arms, rOwned.val)
    /\ UNCHANGED <<pc, decl, options, emitted, message, input, rOwned, rBorrowed>>

Next ==
    \/ Derive
    \/ From
    \/ TryFrom
    \/ Render
    \/ RenderResult

Spec == Init /\ [][Next]_vars


(***************************************************************************)
(* Properties.                                                             *)
(***************************************************************************)
Positions == 1..Len(options)
Ordinary == { i \in Positions : ~options[i].catch_all }
Fallbacks == { i \in Positions : options[i].catch_all }

\* no two non-fallback variants share a label
UniqueLabels ==
    \A i \in Ordinary : \A j \in Ordinary : i # j => options[i].name # options[j].name

\* the input of the last conversion is the label of no non-fallback variant
Unmatched == \A i \in Ordinary : options[i].name # input

\* the first-declared variant among those labelled s
First(s) ==
    CHOOSE i \in Positions :
        /\ options[i].name = s
        /\ \A j \in 1..(i - 1) : options[j].name # s

\* both entry points returned r
Both(r) == rOwned = r /\ rBorrowed = r

\* C1: in total mode with unique labels, from(S) through either entry point
\* is the non-fallback variant labelled S when there is one, wherever the
\* fallback variant is declared, and the fallback variant carrying S only
\* when no non-fallback label equals S.
C1_TotalLabelWins ==
    (last = "from" /\ UniqueLabels) =>
        /\ \A i \in Ordinary :
              options[i].name = input => Both(Ok(UnitValue(options[i].ident)))
        /\ Unmatched =>
              \E k \in Fallbacks : Both(Ok(TupleValue(options[k].ident, input)))

\* C2: the literal of a variant's `name` annotation, as the tests write it, is
\* the variant's label and a variant without annotation is labelled by its
\* identifier; for RenamedValues from("one") is One, from("two") is Two,
\* from("three") is Three, from("four") is Other("four"), and One renders as
\* "one".
C2_NameAnnotationIsLabel ==
    /\ pc = "expanded" =>
          \A i \in Positions :
             /\ GetAttributeValue(decl.variants[i].attrs, "name").some =>
                   options[i].name = GetAttributeValue(decl.variants[i].attrs, "name").lit
             /\ decl.variants[i].attrs = NoAttrs => options[i].name = decl.variants[i].ident
    /\ (decl = RenamedValues /\ last = "from") =>
          /\ input = one => Both(Ok(UnitValue(One)))
          /\ input = two => Both(Ok(UnitValue(Two)))
          /\ input = three => Both(Ok(UnitValue(Three)))
          /\ input = four => Both(Ok(TupleValue(Other, four)))
    /\ (decl = RenamedValues /\ last = "render" /\ self = UnitValue(One)) => shown = one

\* C3 as stated: in fallible mode try_from(S), through either entry point, is
\* Ok(V) for the variant V whenever S equals V's label, and otherwise
\* Err(S) with S unmodified.
C3_OkForEveryLabelledVariant ==
    last = "try_from" =>
        /\ \A i \in Positions :
              options[i].name = input => Both(Ok(UnitValue(options[i].ident)))
        /\ (\A i \in Positions : options[i].name # input) => Both(Err(input))

\* C3 amended: in fallible mode try_from(S), through either entry point, is
\* Ok(V) for the first-declared variant V whose label equals S, and Err(S)
\* with S unmodified when no label equals S; it is never any other variant.
C3_OkForFirstLabelledVariant ==
    last = "try_from" =>
        IF \E i \in Positions : options[i].name = input
        THEN Both(Ok(UnitValue(options[First(input)].ident)))
        ELSE Both(Err(input))

\* try_from failed on a non-empty string next to labels it differs from
C3_Witness ==
    /\ last = "try_from"
    /\ Len(options) >= 2
    /\ input # <<>>
    /\ Unmatched
    /\ ~rOwned.ok /\ rOwned.err = input

\* C4: with a fallback variant, every string S equal to no non-fallback
\* label converts, through either entry point, to the fallback variant
\* carrying exactly S, and that value renders as S.
C4_FallbackAbsorption ==
    (last \in {"from", "roundtrip"} /\ Has("From<String>") /\ Unmatched) =>
        \E k \in Fallbacks :
            /\ Both(Ok(TupleValue(options[k].ident, input)))
            /\ last = "roundtrip" =>
                  self = TupleValue(options[k].ident, input) /\ shown = input

\* a label followed by a space was absorbed by the fallback and rendered back
C4_Witness ==
    /\ last = "roundtrip"
    /\ Has("From<String>")
    /\ input = <<"a", " ">>
    /\ \E i \in Ordinary : options[i].name = <<"a">>
    /\ self.has /\ self.payload = input
    /\ shown = input

\* C5: for every value the Display rendering equals String::from of it, and
\* for a non-fallback variant both are its label.
C5_RenderingEqualsConsuming ==
    last \in {"render", "roundtrip"} =>
        /\ shown = consumed
        /\ \A i \in Ordinary : self = UnitValue(options[i].ident) =>
              shown = options[i].name /\ consumed = options[i].name

\* the variant the emitted match arms select for the string s
Selected(s) == emitted.match_arms[FirstMatch(emitted.match_arms, s)].ident

\* C6: with unique labels, converting the label L of a non-fallback variant
\* and rendering the result gives L, in both modes, and distinct labels
\* convert to distinct variants.
C6_LabelRoundTrip ==
    UniqueLabels =>
        /\ (last = "roundtrip" /\ \E i \in Ordinary : options[i].name = input) =>
              shown = input
        /\ Runs =>
              \A i \in Ordinary : \A j \in Ordinary :
                 i # j => Selected(options[i].name) # Selected(options[j].name)

\* the defects of a declaration that C7 lists
NotEnum(d) == d.kind # "Enum"
HasNamedFields(d) == \E i \in 1..Len(d.variants) : d.variants[i].fields.kind = "Named"
HasManyFields(d) ==
    \E i \in 1..Len(d.variants) :
        d.variants[i].fields.kind = "Unnamed" /\ d.variants[i].fields.len >= 2
SingleFieldVariants(d) ==
    { i \in 1..Len(d.variants) :
        d.variants[i].fields.kind = "Unnamed" /\ d.variants[i].fields.len = 1 }
Defective(d) ==
    \/ NotEnum(d)
    \/ HasNamedFields(d)
    \/ HasManyFields(d)
    \/ Cardinality(SingleFieldVariants(d)) >= 2

\* C7: the expansion aborts, emitting nothing, when the input is no enum, a
\* variant has named fields, a variant has two or more unnamed fields, or two
\* or more variants have exactly one unnamed field; every other input expands.
C7_AbortsExactlyOnDefects ==
    pc # "start" =>
        /\ Defective(decl) => pc = "aborted" /\ emitted = Nothing
        /\ ~Defective(decl) => pc = "expanded" /\ emitted # Nothing

Count(impl) ==
    Cardinality({ k \in 1..Len(emitted.impls) : emitted.impls[k] = impl })

\* C8: an expansion that emits output classified at most one variant as
\* fallback; it emits From<String> and From<&str> exactly when there is one,
\* TryFrom<String> and TryFrom<&str> exactly when there is none, never both
\* families, and always one Display and one From<Enum> for String.
C8_ConversionMode ==
    pc = "expanded" =>
        /\ CatchAllCount(options) <= 1
        /\ (Count("From<String>") = 1 /\ Count("From<&str>") = 1)
              <=> CatchAllCount(options) = 1
        /\ (Count("TryFrom<String>") = 1 /\ Count("TryFrom<&str>") = 1)
              <=> CatchAllCount(options) = 0
        /\ Count("From<String>") + Count("From<&str>") = 0
              \/ Count("TryFrom<String>") + Count("TryFrom<&str>") = 0
        /\ Count("Display") = 1
        /\ Count("From<Enum> for String") = 1
        /\ Len(emitted.impls) = 4

\* an expansion in total mode, the fallback declared before another variant
C8_Witness ==
    /\ pc = "expanded"
    /\ Len(options) >= 2
    /\ options[1].catch_all
    /\ Has("From<String>") /\ Has("From<&str>")

\* C9: an accepted variant is classified as fallback exactly when it has
\* exactly one unnamed field.
C9_FallbackIffOneUnnamedField ==
    pc = "expanded" =>
        \A i \in Positions :
            options[i].catch_all <=>
                (decl.variants[i].fields.kind = "Unnamed" /\ decl.variants[i].fields.len = 1)

ClassificationMessages ==
    { "Can only derive StrNum for enums",
      "Only single unnamed enum field is supported",
      "Only a single unnamed enum field is supported",
      "Only a single catch-all variant is supported" }

\* C10: two non-fallback variants sharing a label are no build-time error,
\* and in both modes the conversion of that label, through either entry
\* point, is the first-declared of them; the later one is never the result
\* of a conversion.
C10_FirstDeclaredWins ==
    /\ pc = "aborted" => message \in ClassificationMessages
    /\ \A i \in Ordinary : \A j \in Ordinary :
          (i < j /\ options[i].name = options[j].name /\ First(options[i].name) = i) =>
              /\ (last \in {"from", "try_from"} /\ input = options[i].name) =>
                    Both(Ok(UnitValue(options[i].ident)))
              /\ last \in {"from", "try_from"} =>
                    rOwned.val.ident # options[j].ident /\ rBorrowed.val.ident # options[j].ident

====
